---- MODULE Spec2Model ----
(***************************************************************************)
(* Asynchronous video ingestion of flock_backend: the submission handler   *)
(* (create_video), the background task (upload_video_task) with its        *)
(* resumable upload loop (upload_video_with_tus), the cancellation handler *)
(* (cancel_upload) and the status handler (get_task_status).               *)
(*                                                                         *)
(* One submission is followed from the HTTP request to the terminal state  *)
(* of its task.  The upload_sessions table is an input: no handler under   *)
(* src/ inserts a row, so its rows are drawn in Init.                      *)
(***************************************************************************)
EXTENDS Integers, Sequences, FiniteSets, TLC

(***************************************************************************)
(* Bounds of the model and constants of the program.                       *)
(***************************************************************************)
\* largest staged file, in transfer units (half a default chunk)
MaxFileSize == 3
\* largest chunk_size / max_retries argument drawn for the upload on its own
MaxChunkArg == 2
MaxRetriesArg == 2
\* most deliveries of one task by the broker
MaxDeliveries == 2
\* default chunk_size of upload_video_with_tus: 52428800 bytes = 2 units
DefaultChunkSize == 2
\* default max_retries of upload_video_with_tus
DefaultMaxRetries == 10
\* wait_time = min(5 * retry_count, 30)
BackoffStep == 5
BackoffCap == 30

Users == {1, 2}
\* "t1" is the id Celery gives the task of the submission; "s2" is any other id
JobId == "t1"
TaskIds == {"t1", "s2"}
\* ids that can have a row in upload_sessions
SessionIds == {JobId}
TusUrls == {"none", "tus"}

VARIABLES
    sessions,       \* upload_sessions table: id -> [user_id, tus_url, cancelled]
    pc,             \* position of the submission / of upload_video_task
    submitter,      \* user.id of the accepted submission (0: none yet)
    submitResp,     \* HTTP status of the last create_video response (0: none)
    taskState,      \* Celery state of the task in the result backend
    taskResult,     \* Celery result/info of the task
    files,          \* staged temp files that exist: subset of {"video","thumb"}
    thumb_path,     \* TRUE when the task was given a thumbnail path
    catalog,        \* committed Video rows
    cacheCalls,     \* number of delete_video_cache() calls that ran
    file_size, chunk_size, max_retries,
    url,            \* uploader.url: "none" until the create call succeeded
    offset,         \* uploader.offset
    last_offset,
    retry_count,
    serverOffset,   \* bytes the remote endpoint has stored for the session
    playback_url, thumbnail_url,
    failRun,        \* history: consecutive failed chunk calls so far
    lastCall,       \* history: last network call made by upload_video_with_tus
    lastWait,       \* history: time.sleep that followed the last chunk call (0: none)
    lastCancel,     \* history: what the last cancel_upload request did
    chunkAfterFlag, \* history: a chunk call began with the job's flag already set
    chunkCalls,     \* history: uploader.upload_chunk() calls made, when counted
    failCalls,      \* history: those of them that raised, when counted
    partial,        \* history: the server took less than a chunk it was sent
    lastSubmit,     \* history: the last create_video request, when recorded
    failKinds,      \* history: kinds of failed chunk calls so far, when counted
    steps,          \* history: steps upload_video_task entered in this delivery
    deliveries,     \* deliveries of the task so far, the first one included
    observed        \* last get_task_status response for the job

vars == <<sessions, pc, submitter, submitResp, taskState, taskResult, files,
          thumb_path, catalog, cacheCalls, file_size, chunk_size, max_retries,
          url, offset, last_offset, retry_count, serverOffset, playback_url,
          thumbnail_url, failRun, lastCall, lastWait, lastCancel, chunkAfterFlag,
          chunkCalls, failCalls, partial, lastSubmit, failKinds, steps,
          deliveries, observed>>

uploadVars == <<file_size, chunk_size, max_retries, url, offset, last_offset,
                retry_count, serverOffset, failRun, lastCall, lastWait,
                chunkCalls, failCalls, partial, failKinds>>
histVars == <<lastCancel, chunkAfterFlag, observed, lastSubmit, deliveries>>

\* session.cancelled of the job's row, False when there is no row
JobFlag == JobId \in DOMAIN sessions /\ sessions[JobId].cancelled

Min(a, b) == IF a < b THEN a ELSE b

(***************************************************************************)
(* Celery results.  A result or info is a record [kind, d]: kind "none",   *)
(* kind "exc" (an exception instance) or kind "dict" with d the dict, a    *)
(* function from its keys to Python values written as strings.             *)
(***************************************************************************)
NoDict == [k \in {} |-> "None"]
NoInfo == [kind |-> "none", d |-> NoDict]
ExcInfo == [kind |-> "exc", d |-> NoDict]
DictInfo(d) == [kind |-> "dict", d |-> d]

\* the dict returned at tasks.py:207-215
SuccessResult == DictInfo([k \in {"success"} |-> "True"])
\* the dict returned at tasks.py:223-227; error is str(e)
FailureResult(e) ==
    DictInfo([k \in {"success", "error"} |-> IF k = "success" THEN "False" ELSE e])

\* Python truthiness of a value
Truthy(v) == v \notin {"False", "None", ""}
\* d.get(k)
Get(d, k) == IF k \in DOMAIN d THEN d[k] ELSE "None"

NoResponse == [state |-> "none", status |-> "none", result |-> NoInfo, error |-> "absent"]

Cancelled_Response ==
    [state |-> "CANCELLED", status |-> "Upload cancelled by user",
     result |-> NoInfo, error |-> "absent"]

\* a FAILURE whose info is the cancellation sentinel is relabelled
\* (video.py:152-165); this variant reports every FAILURE as a failure
FailureResponse_NoSentinel(info) ==
    [state |-> "FAILURE", status |-> "Upload failed",
     result |-> NoInfo, error |-> "str(info)"]

FailureResponse(info) ==
    IF \/ (info.kind = "dict" /\ DOMAIN info.d = {"cancelled"}
                               /\ info.d["cancelled"] = "True")
       \/ (info.kind = "dict" /\ Get(info.d, "error") = "cancelled")
    THEN Cancelled_Response
    ELSE [state |-> "FAILURE", status |-> "Upload failed",
          result |-> NoInfo, error |-> "str(info)"]

\* the response built by get_task_status from task.state and task.info
StatusResponse(state, info) ==
    IF state = "PENDING"
    THEN [state |-> state, status |-> "Task is waiting to start...",
          result |-> NoInfo, error |-> "absent"]
    ELSE IF state = "STARTED"
    THEN [state |-> state, status |-> "Video is uploading...",
          result |-> NoInfo, error |-> "absent"]
    ELSE IF state = "SUCCESS"
    THEN IF info.kind = "dict" /\ Truthy(Get(info.d, "cancelled"))
         THEN Cancelled_Response
         ELSE [state |-> state, status |-> "Upload completed successfully!",
               result |-> info, error |-> "absent"]
    ELSE IF state = "FAILURE"
    THEN FailureResponse(info)
    ELSE IF state = "REVOKED"
    THEN Cancelled_Response
    ELSE [state |-> state, status |-> "str(info)", result |-> NoInfo, error |-> "absent"]

(***************************************************************************)
(* Initial state: nothing submitted; the upload_sessions table holds any   *)
(* rows over SessionIds, each with the column default cancelled = False.      *)
(***************************************************************************)
SessionRows == [user_id : Users, tus_url : TusUrls, cancelled : {FALSE}]

NoCancel == [id |-> "none", requester |-> 0, code |-> 0, existed |-> FALSE,
             owner |-> 0, flagBefore |-> FALSE, committed |-> FALSE,
             revoke |-> "none", delete |-> "none", accepted |-> FALSE]

\* probed durations of a submitted file, in seconds
Durations == {120, 601}

NoSubmit == [made |-> FALSE, has_video |-> FALSE, has_title |-> FALSE,
             sched |-> "none", dur |-> 0, json_ok |-> FALSE, enqueue_ok |-> FALSE]

InitCommon ==
    /\ failKinds = {}
    /\ steps = << >>
    /\ deliveries = 1
    /\ chunkCalls = 0
    /\ failCalls = 0
    /\ partial = FALSE
    /\ lastSubmit = NoSubmit
    /\ submitter = 0
    /\ submitResp = 0
    /\ taskState = "PENDING"
    /\ taskResult = NoInfo
    /\ thumb_path = FALSE
    /\ catalog = {}
    /\ cacheCalls = 0
    /\ url = "none"
    /\ offset = 0
    /\ last_offset = 0
    /\ retry_count = 0
    /\ serverOffset = 0
    /\ playback_url = "none"
    /\ thumbnail_url = "none"
    /\ failRun = 0
    /\ lastCall = "none"
    /\ lastWait = 0
    /\ lastCancel = NoCancel
    /\ chunkAfterFlag = FALSE
    /\ observed = NoResponse

Init ==
    /\ InitCommon
    /\ \E S \in SUBSET SessionIds : sessions \in [S -> SessionRows]
    /\ pc = "idle"
    /\ files = {}
    /\ file_size = 0
    /\ chunk_size = DefaultChunkSize
    /\ max_retries = DefaultMaxRetries

(***************************************************************************)
(* create_video: the submission handler.                                   *)
(***************************************************************************)
\* the files written at video.py:64-76
Staged(has_thumb) == {"video"} \cup (IF has_thumb THEN {"thumb"} ELSE {})

\* a validation that lets a scheduled time in the past through
ValidationStatus_PastAllowed(has_video, has_title, sched) ==
    IF ~has_video \/ ~has_title THEN 400
    ELSE IF sched = "malformed" THEN 400
    ELSE 0

\* the 400 returns at video.py:42-58; 0 when the request passes them
ValidationStatus(has_video, has_title, sched) ==
    IF ~has_video \/ ~has_title THEN 400
    ELSE IF sched \in {"past", "malformed"} THEN 400
    ELSE 0

create_video(user, has_video, has_title, sched, has_thumb, json_ok, enqueue_ok, size, dur, record) ==
    /\ pc = "idle"
    /\ lastSubmit' = IF ~record THEN lastSubmit ELSE
                     [made |-> TRUE, has_video |-> has_video, has_title |-> has_title,
                      sched |-> sched, dur |-> dur, json_ok |-> json_ok,
                      enqueue_ok |-> enqueue_ok]
    /\ IF ValidationStatus(has_video, has_title, sched) # 0
       THEN \* rejected before anything is staged
            /\ submitResp' = ValidationStatus(has_video, has_title, sched)
            /\ UNCHANGED <<pc, submitter, files, thumb_path, file_size>>
       ELSE IF ~json_ok \/ ~enqueue_ok
       THEN \* json.loads or apply_async raises after staging; the handler at
            \* video.py:106 reads temp_video.name of a str and raises itself,
            \* so nothing is removed and the framework answers 500
            /\ submitResp' = 500
            /\ pc' = "refused"
            /\ files' = Staged(has_thumb)
            /\ UNCHANGED <<submitter, thumb_path, file_size>>
       ELSE \* accepted: the task is enqueued and its id returned
            /\ submitResp' = 202
            /\ pc' = "queued"
            /\ submitter' = user
            /\ files' = Staged(has_thumb)
            /\ thumb_path' = has_thumb
            /\ file_size' = size
    /\ UNCHANGED <<sessions, taskState, taskResult, catalog, cacheCalls,
                   chunk_size, max_retries, url, offset, last_offset, retry_count,
                   serverOffset, playback_url, thumbnail_url, failRun, lastCall,
                   lastWait, chunkCalls, failCalls, partial, lastCancel,
                   chunkAfterFlag, observed, failKinds, steps, deliveries>>

CreateVideo ==
    \E user \in Users, has_video \in BOOLEAN, has_title \in BOOLEAN,
       sched \in {"none", "future", "past", "malformed"}, has_thumb \in BOOLEAN,
       json_ok \in BOOLEAN, enqueue_ok \in BOOLEAN, size \in 0..MaxFileSize,
       dur \in Durations :
        create_video(user, has_video, has_title, sched, has_thumb, json_ok,
                     enqueue_ok, size, dur, FALSE)

\* the same handler, with the request recorded in lastSubmit
CreateVideoRecorded ==
    \E user \in Users, has_video \in BOOLEAN, has_title \in BOOLEAN,
       sched \in {"none", "future", "past", "malformed"}, has_thumb \in BOOLEAN,
       json_ok \in BOOLEAN, enqueue_ok \in BOOLEAN, size \in 0..MaxFileSize,
       dur \in Durations :
        create_video(user, has_video, has_title, sched, has_thumb, json_ok,
                     enqueue_ok, size, dur, TRUE)

(***************************************************************************)
(* upload_video_task: the background task, one action per blocking step.   *)
(***************************************************************************)
\* the except branch at tasks.py:217-227: rollback, remove the temp files,
\* return the failure dict (the task itself returns, so Celery stores SUCCESS)
TaskFails(e) ==
    /\ files' = {}
    /\ taskState' = "SUCCESS"
    /\ taskResult' = FailureResult(e)
    /\ pc' = "done"

\* an upload that does not look at the staged file before it starts
FileExists_Unchecked(fs) == TRUE

\* os.path.getsize(file_path) at tasks.py:25 raises when the staged file is
\* gone
FileExists(fs) == "video" \in fs

\* tasks.py:125-131 and 21-71: user lookup, then the upload is set up; an
\* empty file skips the loop and uploader.url is still None at line 117
WorkerStart ==
    /\ pc = "queued"
    /\ \E userFound \in BOOLEAN :
        IF ~userFound
        THEN /\ TaskFails("User not found")
             /\ UNCHANGED steps
        ELSE /\ steps' = Append(steps, "upload")
             /\ IF ~FileExists(files) THEN TaskFails("No such file")
                ELSE IF ~(0 < file_size)
                THEN TaskFails("NoneType has no attribute split")
                ELSE /\ pc' = "upload"
                     /\ UNCHANGED <<files, taskState, taskResult>>
    /\ UNCHANGED <<sessions, submitter, submitResp, thumb_path, catalog, cacheCalls,
                   uploadVars, playback_url, thumbnail_url, histVars>>

\* a budget check that allows twice the retries
BudgetExhausted_Double(rc, mr) == rc > 2 * mr + 1

\* a budget check that lets one more retry through
BudgetExhausted_OneMore(rc, mr) == rc > mr + 1

\* retry_count > max_retries at tasks.py:90
BudgetExhausted(rc, mr) == rc > mr

\* a wait that keeps growing with the retries
WaitTime_Uncapped(rc) == BackoffStep * rc

\* wait_time at tasks.py:95
WaitTime(rc) == Min(BackoffStep * rc, BackoffCap)

\* an uploader that sends one unit per call whatever chunk_size is
ChunkLen_Unit == Min(1, file_size - offset)

\* bytes of the next chunk: [offset, offset + chunk_size), the last one shorter
ChunkLen == Min(chunk_size, file_size - offset)

\* an uploader that advances by what it sent
NewOffset_Arithmetic(off, sent, reported) == off + sent

\* uploader.offset after upload_chunk() returned: the Upload-Offset the server
\* reported, whatever was sent (read at tasks.py:77-85)
NewOffset(off, sent, reported) == reported

\* a counter that a successful chunk call leaves as it is
RetryCountAfterSuccess_Kept(rc) == rc

\* retry_count = 0 at tasks.py:86
RetryCountAfterSuccess(rc) == 0

\* a retry that resumes past the chunk it sent, as if it had been stored
ResumeOffset_Optimistic(last, head, sent) == last + sent

\* uploader.offset = last_offset at tasks.py:109, whatever offset the new
\* uploader read from the server (head)
ResumeOffset(last, head, sent) == last

\* uploader.upload_chunk() returns: the session exists (created by this call
\* when there was none), the server took n bytes at the client's offset and
\* reported its new offset (tasks.py:74-86)
upload_chunk_succeeds(count) ==
    /\ pc = "upload"
    /\ offset < file_size
    /\ url = "none" \/ offset = serverOffset
    /\ \E n \in 1..ChunkLen :
        LET base == IF url = "none" THEN 0 ELSE serverOffset
            reported == base + n
        IN /\ serverOffset' = reported
           /\ offset' = NewOffset(base, ChunkLen, reported)
           /\ last_offset' = offset'
           /\ pc' = IF offset' < file_size THEN "upload" ELSE "details"
           /\ partial' = IF count THEN (partial \/ n < ChunkLen) ELSE partial
    /\ chunkCalls' = IF count THEN chunkCalls + 1 ELSE chunkCalls
    /\ UNCHANGED failCalls
    /\ chunkAfterFlag' = (chunkAfterFlag \/ JobFlag)
    /\ url' = "tus"
    /\ retry_count' = RetryCountAfterSuccess(retry_count)
    /\ lastWait' = 0
    /\ failRun' = 0
    /\ lastCall' = "PATCH"
    /\ UNCHANGED <<sessions, submitter, submitResp, taskState, taskResult, files,
                   thumb_path, catalog, cacheCalls, file_size, chunk_size,
                   max_retries, playback_url, thumbnail_url,
                   lastCancel, observed, lastSubmit, failKinds, steps, deliveries>>

ChunkSucceeds == upload_chunk_succeeds(FALSE)

\* the same step, counted in chunkCalls and partial
ChunkSucceedsCounted == upload_chunk_succeeds(TRUE)

\* uploader.upload_chunk() raises (tasks.py:88-109).  kind: "create" the
\* session could not be created, "transport" the chunk did not reach the
\* server, "lost" the server stored n bytes and the response was lost,
\* "conflict" the server refused a chunk sent at an offset that is not its own.
\* Re-creating the uploader with url=... queries the server's offset (HEAD),
\* which can raise in its turn; line 109 then overwrites the offset.
upload_chunk_fails(kind, n, headOk, count) ==
    /\ pc = "upload"
    /\ offset < file_size
    /\ kind = "create" => url = "none"
    /\ kind = "lost" => (url = "none" \/ offset = serverOffset)
    /\ kind = "conflict" => (url = "tus" /\ offset # serverOffset)
    /\ kind = "transport" => (url = "none" \/ offset = serverOffset)
    /\ n \in 1..ChunkLen
    /\ serverOffset' = IF kind = "lost"
                       THEN (IF url = "none" THEN 0 ELSE serverOffset) + n
                       ELSE serverOffset
    /\ url' = IF kind = "create" THEN "none" ELSE "tus"
    /\ failRun' = failRun + 1
    /\ retry_count' = retry_count + 1
    /\ IF BudgetExhausted(retry_count + 1, max_retries)
       THEN /\ TaskFails("Upload failed")
            /\ lastCall' = IF kind = "create" THEN "POST" ELSE "PATCH"
            /\ lastWait' = 0
            /\ UNCHANGED <<offset, last_offset>>
       ELSE /\ lastWait' = WaitTime(retry_count + 1)
            /\ IF url' = "none"
               THEN /\ lastCall' = "POST"
                    /\ offset' = ResumeOffset(last_offset, 0, ChunkLen)
                    /\ UNCHANGED <<pc, files, taskState, taskResult, last_offset>>
               ELSE /\ lastCall' = "HEAD"
                    /\ IF headOk
                       THEN /\ offset' = ResumeOffset(last_offset, serverOffset', ChunkLen)
                            /\ UNCHANGED <<pc, files, taskState, taskResult, last_offset>>
                       ELSE /\ TaskFails("offset query failed")
                            /\ UNCHANGED <<offset, last_offset>>
    /\ chunkAfterFlag' = (chunkAfterFlag \/ JobFlag)
    /\ chunkCalls' = IF count THEN chunkCalls + 1 ELSE chunkCalls
    /\ failCalls' = IF count THEN failCalls + 1 ELSE failCalls
    /\ failKinds' = IF count THEN failKinds \cup {kind} ELSE failKinds
    /\ UNCHANGED <<sessions, submitter, submitResp, thumb_path, catalog, cacheCalls,
                   file_size, chunk_size, max_retries, playback_url, thumbnail_url,
                   lastCancel, observed, lastSubmit, partial, steps, deliveries>>

ChunkFails ==
    \E kind \in {"create", "transport", "lost", "conflict"}, n \in 1..MaxFileSize,
       headOk \in BOOLEAN :
        upload_chunk_fails(kind, n, headOk, FALSE)

\* the same step, counted in chunkCalls and failCalls
ChunkFailsCounted ==
    \E kind \in {"create", "transport", "lost", "conflict"}, n \in 1..MaxFileSize,
       headOk \in BOOLEAN :
        upload_chunk_fails(kind, n, headOk, TRUE)

(***************************************************************************)
(* The steps of upload_video_task after the upload returned video_uid.     *)
(***************************************************************************)
\* tasks.py:138-148: requests.get is outside any inner try, so a transport
\* error reaches the outer except
FetchDetails ==
    /\ pc = "details"
    /\ steps' = Append(steps, "details")
    /\ \E outcome \in {"full", "empty", "non200", "raise"} :
        IF outcome = "raise"
        THEN /\ TaskFails("details request failed")
             /\ UNCHANGED <<playback_url, thumbnail_url>>
        ELSE /\ playback_url' = IF outcome = "full" THEN "hls" ELSE "fallback"
             /\ thumbnail_url' = IF outcome = "full" THEN "remote" ELSE "none"
             /\ pc' = "thumb"
             /\ UNCHANGED <<files, taskState, taskResult>>
    /\ UNCHANGED <<sessions, submitter, submitResp, thumb_path, catalog, cacheCalls,
                   uploadVars, histVars>>

\* tasks.py:151-171: every failure of the optional upload is caught
UploadThumbnail ==
    /\ pc = "thumb"
    /\ steps' = Append(steps, "thumb")
    /\ \E outcome \in {"ok", "non200", "raise", "malformed"} :
        LET got == IF thumb_path /\ outcome = "ok" THEN "custom" ELSE thumbnail_url
        IN thumbnail_url' = IF got = "none" THEN "fallback" ELSE got
    /\ pc' = "commit"
    /\ UNCHANGED <<sessions, submitter, submitResp, taskState, taskResult, files,
                   thumb_path, catalog, cacheCalls, uploadVars, playback_url, histVars>>

\* keyword arguments of the call Video(...) at tasks.py:177-192
VideoCallKwargs ==
    {"title", "description", "duration", "video", "thumbnail", "keywords",
     "locations", "created_by", "is_draft", "is_scheduled", "scheduled_at",
     "age_restricted", "brand_tags", "paid_promotion"}

\* a constructor that takes every keyword the task passes
VideoInitParams_All == VideoCallKwargs \cup {"format"}

\* parameters of Video.__init__ (models/video.py:42-43)
VideoInitParams ==
    {"title", "video", "created_by", "description", "thumbnail", "duration",
     "format", "is_draft"}

\* tasks.py:174-215: the duration is probed, the Video row is built and
\* committed, the listing caches are dropped, the temp files removed and the
\* success dict returned.  Video.__init__ takes none of keywords, locations,
\* is_scheduled, scheduled_at, age_restricted, brand_tags, paid_promotion, so
\* the call at line 177 raises TypeError before db.session.add and the outer
\* except runs.  With a constructor that took them, an error of the commit
\* would fail the job without a row, and an error of delete_video_cache()
\* (line 198) would reach the same except with the row already committed.
CommitVideo ==
    /\ pc = "commit"
    /\ steps' = Append(steps, "commit")
    /\ \E dur \in Durations, dbOk \in BOOLEAN, cacheOk \in BOOLEAN :
        IF ~(VideoCallKwargs \subseteq VideoInitParams)
        THEN /\ TaskFails("unexpected keyword argument")
             /\ UNCHANGED <<catalog, cacheCalls>>
        ELSE IF ~dbOk
        THEN /\ TaskFails("commit failed")
             /\ UNCHANGED <<catalog, cacheCalls>>
        ELSE /\ catalog' = catalog \cup {[id |-> Cardinality(catalog) + 1,
                                          created_by |-> submitter,
                                          video |-> playback_url,
                                          thumbnail |-> thumbnail_url,
                                          duration |-> dur]}
             /\ cacheCalls' = cacheCalls + 1
             /\ IF cacheOk
                THEN /\ files' = {}
                     /\ taskState' = "SUCCESS"
                     /\ taskResult' = SuccessResult
                     /\ pc' = "done"
                ELSE TaskFails("cache error")
    /\ UNCHANGED <<sessions, submitter, submitResp, thumb_path, uploadVars,
                   playback_url, thumbnail_url, histVars>>

(***************************************************************************)
(* cancel_upload: the cancellation handler.                                *)
(***************************************************************************)
\* positions at which the task is queued or executing
Running == {"queued", "upload", "details", "thumb", "commit"}

\* a revoke that also overwrites the stored state of a finished task
Terminable_Finished(task_id, p) == task_id = JobId /\ p \in Running \cup {"done"}

\* revoke(task_id, terminate=True, signal='SIGKILL') acts on a task that is
\* waiting or executing; a finished task keeps its stored state
Terminable(task_id, p) == task_id = JobId /\ p \in Running

\* a handler in which an error of revoke escapes to the outer except
CancelStatus_RevokeRaises(exists, commitOk, revoke, del) ==
    IF ~exists THEN 404
    ELSE IF ~commitOk \/ revoke = "raised" THEN 500
    ELSE 200

\* the status cancel_upload answers with, video.py:195-233: the session must
\* exist and the commit of the flag must succeed; nothing else decides it
CancelStatus(exists, commitOk, revoke, del) ==
    IF ~exists THEN 404
    ELSE IF ~commitOk THEN 500
    ELSE 200

cancel_upload(task_id, requester, commitOk, revoke, del, record) ==
    LET exists == task_id \in DOMAIN sessions
        code == CancelStatus(exists, commitOk, revoke, del)
        flagged == exists /\ commitOk
        lands == flagged /\ revoke = "landed" /\ Terminable(task_id, pc)
        deletes == flagged /\ sessions[task_id].tus_url # "none"
    IN /\ del = "none" <=> ~deletes
       /\ revoke = "none" <=> ~flagged
       /\ commitOk \/ exists
       /\ sessions' = IF flagged
                      THEN [sessions EXCEPT ![task_id].cancelled = TRUE]
                      ELSE sessions
       /\ IF lands
          THEN \* the worker process is killed, or the queued task discarded
               /\ taskState' = "REVOKED"
               /\ taskResult' = ExcInfo
               /\ pc' = "killed"
          ELSE UNCHANGED <<taskState, taskResult, pc>>
       /\ lastCancel' = IF ~record THEN lastCancel ELSE
                        [id |-> task_id, requester |-> requester, code |-> code,
                         existed |-> exists,
                         owner |-> IF exists THEN sessions[task_id].user_id ELSE 0,
                         flagBefore |-> IF exists THEN sessions[task_id].cancelled ELSE FALSE,
                         committed |-> flagged,
                         revoke |-> revoke, delete |-> del,
                         accepted |-> (submitResp = 202)]
       /\ UNCHANGED <<chunkAfterFlag, submitter, submitResp, files, thumb_path,
                      catalog, cacheCalls, uploadVars, playback_url, thumbnail_url,
                      observed, lastSubmit, steps, deliveries>>

CancelUpload ==
    \E task_id \in TaskIds, requester \in Users, commitOk \in BOOLEAN,
       revoke \in {"none", "landed", "missed", "raised"},
       del \in {"none", "ok", "error", "timeout"} :
        cancel_upload(task_id, requester, commitOk, revoke, del, FALSE)

\* the same handler, with what each request did recorded in lastCancel
CancelUploadRecorded ==
    \E task_id \in TaskIds, requester \in Users, commitOk \in BOOLEAN,
       revoke \in {"none", "landed", "missed", "raised"},
       del \in {"none", "ok", "error", "timeout"} :
        cancel_upload(task_id, requester, commitOk, revoke, del, TRUE)

(***************************************************************************)
(* get_task_status: the status handler, polled for the job's id.           *)
(***************************************************************************)
\* a poll that consumes the stored result of a finished task
GetTaskStatus_Forgets ==
    /\ observed' = StatusResponse(taskState, taskResult)
    /\ taskState' = IF pc \in {"done", "killed"} THEN "PENDING" ELSE taskState
    /\ taskResult' = IF pc \in {"done", "killed"} THEN NoInfo ELSE taskResult
    /\ UNCHANGED <<sessions, pc, submitter, submitResp, files,
                   thumb_path, catalog, cacheCalls, uploadVars, playback_url,
                   thumbnail_url, lastCancel, chunkAfterFlag, lastSubmit, steps,
                   deliveries>>

\* video.py:114-186: AsyncResult(task_id) is read and projected; nothing is
\* written
GetTaskStatus ==
    /\ observed' = StatusResponse(taskState, taskResult)
    /\ UNCHANGED <<sessions, pc, submitter, submitResp, taskState, taskResult, files,
                   thumb_path, catalog, cacheCalls, uploadVars, playback_url,
                   thumbnail_url, lastCancel, chunkAfterFlag, lastSubmit, steps,
                   deliveries>>

Next ==
    \/ CreateVideo
    \/ WorkerStart
    \/ ChunkSucceeds
    \/ ChunkFails
    \/ FetchDetails
    \/ UploadThumbnail
    \/ CommitVideo
    \/ CancelUpload
    \/ GetTaskStatus

Spec == Init /\ [][Next]_vars

(***************************************************************************)
(* upload_video_with_tus on its own: the task is started on a staged file  *)
(* with chunk_size and max_retries drawn instead of the defaults.          *)
(***************************************************************************)
InitUpload ==
    /\ InitCommon
    /\ sessions = [id \in {} |-> 0]
    /\ pc = "queued"
    /\ files = {"video"}
    /\ file_size \in 0..MaxFileSize
    /\ chunk_size \in 1..MaxChunkArg
    /\ max_retries \in 0..MaxRetriesArg

NextUpload ==
    \/ WorkerStart
    \/ ChunkSucceedsCounted
    \/ ChunkFailsCounted

SpecUpload == InitUpload /\ [][NextUpload]_vars

\* the same, with the worker running on: every call of the loop returns and
\* the loop takes its next step
SpecUploadFair == InitUpload /\ [][NextUpload]_vars /\ WF_vars(NextUpload)

(***************************************************************************)
(* cancel_upload on its own: submissions and cancellation requests, each   *)
(* request recorded.                                                       *)
(***************************************************************************)
NextCancel ==
    \/ CreateVideo
    \/ CancelUploadRecorded

SpecCancel == Init /\ [][NextCancel]_vars

(***************************************************************************)
(* create_video followed by the task, each request recorded.               *)
(***************************************************************************)
NextSubmit ==
    \/ CreateVideoRecorded
    \/ WorkerStart
    \/ ChunkSucceeds
    \/ ChunkFails
    \/ FetchDetails
    \/ UploadThumbnail
    \/ CommitVideo

SpecSubmit == Init /\ [][NextSubmit]_vars

(***************************************************************************)
(* The task under at-least-once delivery: the worker process can die at    *)
(* any step of the task, and the broker can hand the same message to a     *)
(* worker again, after a crash or after the task has finished.             *)
(***************************************************************************)
\* the worker process dies while the task runs; nothing is cleaned up
WorkerCrash ==
    /\ pc \in {"upload", "details", "thumb", "commit"}
    /\ pc' = "crashed"
    /\ UNCHANGED <<sessions, submitter, submitResp, taskState, taskResult, files,
                   thumb_path, catalog, cacheCalls, uploadVars, playback_url,
                   thumbnail_url, histVars, steps>>

\* the same message is delivered again: upload_video_task starts over with
\* the same arguments, a new uploader and no session URL (tasks.py:53-69)
Redeliver ==
    /\ pc \in {"done", "crashed"}
    /\ deliveries < MaxDeliveries
    /\ deliveries' = deliveries + 1
    /\ pc' = "queued"
    /\ url' = "none"
    /\ offset' = 0
    /\ last_offset' = 0
    /\ retry_count' = 0
    /\ serverOffset' = 0
    /\ failRun' = 0
    /\ lastCall' = "none"
    /\ lastWait' = 0
    /\ playback_url' = "none"
    /\ thumbnail_url' = "none"
    /\ steps' = << >>
    /\ UNCHANGED <<sessions, submitter, submitResp, taskState, taskResult, files,
                   thumb_path, catalog, cacheCalls, file_size, chunk_size,
                   max_retries, chunkCalls, failCalls, partial, failKinds,
                   lastCancel, chunkAfterFlag, observed, lastSubmit>>

NextRedeliver ==
    \/ CreateVideo
    \/ WorkerStart
    \/ ChunkSucceeds
    \/ ChunkFails
    \/ FetchDetails
    \/ UploadThumbnail
    \/ CommitVideo
    \/ WorkerCrash
    \/ Redeliver

SpecRedeliver == Init /\ [][NextRedeliver]_vars

(***************************************************************************)
(* get_task_status on its own: the result backend holds any state and any  *)
(* info for the polled id.                                                 *)
(***************************************************************************)
RawStates == {"PENDING", "STARTED", "SUCCESS", "FAILURE", "REVOKED", "RETRY"}
DictKeys == {"cancelled", "error", "success"}
DictValues == {"True", "False", "cancelled", "boom"}
RawInfos ==
    {NoInfo, ExcInfo} \cup
    {DictInfo(d) : d \in UNION {[K -> DictValues] : K \in SUBSET DictKeys}}

InitStatus ==
    /\ submitter = 1
    /\ submitResp = 202
    /\ taskState \in RawStates
    /\ taskResult \in RawInfos
    /\ files = {}
    /\ thumb_path = FALSE
    /\ catalog = {}
    /\ cacheCalls = 0
    /\ url = "none"
    /\ offset = 0
    /\ last_offset = 0
    /\ retry_count = 0
    /\ serverOffset = 0
    /\ playback_url = "none"
    /\ thumbnail_url = "none"
    /\ failRun = 0
    /\ lastCall = "none"
    /\ lastWait = 0
    /\ lastCancel = NoCancel
    /\ chunkAfterFlag = FALSE
    /\ observed = NoResponse
    /\ chunkCalls = 0
    /\ failCalls = 0
    /\ partial = FALSE
    /\ lastSubmit = NoSubmit
    /\ failKinds = {}
    /\ steps = << >>
    /\ deliveries = 1
    /\ sessions = [id \in {} |-> 0]
    /\ pc = "done"
    /\ file_size = 0
    /\ chunk_size = DefaultChunkSize
    /\ max_retries = DefaultMaxRetries

NextStatus == GetTaskStatus

SpecStatus == InitStatus /\ [][NextStatus]_vars

(***************************************************************************)
(* Properties.                                                             *)
(***************************************************************************)
Terminal == pc \in {"done", "killed"}
Polled == StatusResponse(taskState, taskResult)

\* C1: when the job's cancelled flag is set before the worker's check that
\* precedes a chunk upload (so that the chunk call begins with the flag set),
\* the job ends CANCELLED (not FAILED, not SUCCEEDED) and no Video row is
\* created.
C1_CancelledBeforeChunk ==
    (chunkAfterFlag /\ Terminal) => (Polled.state = "CANCELLED" /\ catalog = {})

\* C2: once the job is in a terminal state, on every exit path, the staged
\* source file and the staged thumbnail file no longer exist.
C2_TempFilesRemoved ==
    Terminal => files = {}

\* C3 (as stated): after max_retries consecutive failed chunk calls the upload
\* has raised its terminal failure and made no further network call.
C3_RaisesAtMaxRetries ==
    (failRun > 0 /\ failRun = max_retries) =>
        (pc = "done" /\ lastCall \in {"POST", "PATCH"})

\* C3 (amended): after max_retries + 1 consecutive failed chunk calls the
\* upload has raised its terminal failure, the failed chunk call being its last
\* network call, and no run of failed chunk calls is ever longer.
C3_RaisesAfterMaxRetries ==
    /\ failRun <= max_retries + 1
    /\ failRun = max_retries + 1 =>
         /\ pc = "done"
         /\ taskResult = FailureResult("Upload failed")
         /\ lastCall \in {"POST", "PATCH"}

C3_Witness ==
    /\ max_retries >= 1
    /\ failRun = max_retries + 1
    /\ pc = "done"
    /\ url = "tus"

\* C4: for every file, when every failed chunk call was followed by a
\* successful one (no run of failures is pending at the end), the upload
\* returns with its offset equal to file_size and the server holding exactly
\* file_size bytes.
C4_NoDoubleCount ==
    (pc \in {"details", "done"} /\ failRun = 0
        /\ taskResult # FailureResult("User not found")) =>
        (pc = "details" /\ offset = file_size /\ serverOffset = file_size)

\* C5: when the upload exhausted its retry budget the job is FAILED, the poll
\* reports FAILED with the error description and never SUCCEEDED, and no Video
\* row exists.
C5_ExhaustedReportedFailed ==
    (pc = "done" /\ taskResult = FailureResult("Upload failed")) =>
        /\ Polled.state = "FAILURE"
        /\ Polled.error # "absent"
        /\ catalog = {}

\* the raw terminal states a cancellation produces: a failure whose stored
\* error is the sentinel, a result carrying the cancelled marker, a revoked task
CancellationRaw(state, info) ==
    \/ state = "REVOKED"
    \/ /\ state = "SUCCESS"
       /\ info.kind = "dict"
       /\ "cancelled" \in DOMAIN info.d
       /\ info.d["cancelled"] \in {"True", "cancelled", "boom"}
    \/ /\ state = "FAILURE"
       /\ info.kind = "dict"
       /\ \/ info.d = [k \in {"cancelled"} |-> "True"]
          \/ ("error" \in DOMAIN info.d /\ info.d["error"] = "cancelled")

\* C6: a poll of a job whose raw terminal state was produced by a cancellation
\* reports CANCELLED and carries no error field.
C6_CancelledNeverFailure ==
    (observed.state # "none" /\ CancellationRaw(taskState, taskResult)) =>
        (observed.state = "CANCELLED" /\ observed.error = "absent")

C6_Witness ==
    /\ observed.state = "CANCELLED"
    /\ taskState = "FAILURE"
    /\ taskResult.kind = "dict"
    /\ Get(taskResult.d, "error") = "cancelled"

\* C7: a cancellation request for an existing session by a user who is not its
\* owner is answered Forbidden, leaves the flag unchanged, asks for no
\* termination and issues no remote delete.
C7_ForbiddenForNonOwner ==
    (lastCancel.existed /\ lastCancel.requester # lastCancel.owner) =>
        /\ lastCancel.code = 403
        /\ ~lastCancel.committed
        /\ lastCancel.revoke = "none"
        /\ lastCancel.delete = "none"

\* C8: from the moment a submission is accepted there is a session with the
\* job's id owned by the submitter, and a cancellation request is answered
\* NotFound only for an id that no accepted submission produced.
C8_SessionForAcceptedJob ==
    /\ submitResp = 202 =>
         (JobId \in DOMAIN sessions /\ sessions[JobId].user_id = submitter)
    /\ lastCancel.code = 404 => ~(lastCancel.id = JobId /\ lastCancel.accepted)

\* C9: once cancel_upload has set the flag, the request is answered with
\* success whatever revoke and the remote delete did, and the flag is true.
C9_CancelSucceedsOnceFlagged ==
    lastCancel.committed =>
        /\ lastCancel.code = 200
        /\ lastCancel.id \in DOMAIN sessions
        /\ sessions[lastCancel.id].cancelled

C9_Witness ==
    /\ lastCancel.committed
    /\ lastCancel.revoke = "raised"
    /\ lastCancel.delete = "timeout"
    /\ lastCancel.code = 200

\* order of the states a poll reports
Rank(st) ==
    IF st = "none" THEN 0
    ELSE IF st = "PENDING" THEN 1
    ELSE IF st = "STARTED" THEN 2
    ELSE 3

\* C10: the state seen through get_task_status only moves forward
\* (PENDING, RUNNING, then one terminal state), and once a terminal state has
\* been seen no later poll sees another state.
C10_ObservedMonotonic ==
    [][/\ Rank(observed'.state) >= Rank(observed.state)
       /\ Rank(observed.state) = 3 => observed'.state = observed.state]_vars

C10_Witness ==
    /\ observed.state = "SUCCESS"
    /\ pc = "done"
    /\ JobId \in DOMAIN sessions
    /\ sessions[JobId].cancelled
    /\ ~chunkAfterFlag
    /\ taskResult = FailureResult("unexpected keyword argument")

\* C11: a poll changes neither the job record, the session table, the
\* catalog, the cache nor the staged files, and once a poll has returned the
\* result of a terminal job every later poll returns the identical response.
C11_PollReadOnly ==
    [][/\ GetTaskStatus =>
            UNCHANGED <<taskState, taskResult, sessions, catalog, cacheCalls, files, pc>>
       /\ (Terminal /\ observed = Polled) => observed' = observed]_vars

C11_Witness ==
    /\ Terminal
    /\ observed = Polled
    /\ observed.state = "SUCCESS"
    /\ observed.result = taskResult
    /\ taskResult.kind = "dict"

\* C12: a submitted file whose probed duration exceeds the ceiling of 600 s is
\* rejected at submission: the request is answered with a validation error,
\* no job is enqueued, no temp file stays staged and no catalog record is
\* created.  (Stated for requests whose form fields parse and whose enqueue
\* call does not raise.)
C12_OverlongRejected ==
    (lastSubmit.made /\ lastSubmit.dur > 600
        /\ lastSubmit.json_ok /\ lastSubmit.enqueue_ok) =>
        (submitResp = 400 /\ pc = "idle" /\ files = {} /\ catalog = {})

\* the request recorded in r fails one of the checks of create_video
InvalidSubmission(r) ==
    ~r.has_video \/ ~r.has_title \/ r.sched \in {"past", "malformed"}

\* C13 (as stated): every submission is either rejected with a validation
\* error and no job, or accepted with one job enqueued and no pipeline step
\* of it run.
C13_RejectedOrAccepted ==
    [][lastSubmit' # lastSubmit =>
        \/ (InvalidSubmission(lastSubmit') /\ submitResp' = 400 /\ pc' = "idle"
                /\ files' = {})
        \/ (~InvalidSubmission(lastSubmit') /\ submitResp' = 202 /\ pc' = "queued"
                /\ taskState' = "PENDING" /\ lastCall' = "none" /\ catalog' = {})]_vars

\* C13 (amended): a submission that fails a check is answered 400 with no job
\* and nothing staged; one that passes them is accepted (202, one job queued,
\* no pipeline step of it run yet) unless reading the JSON form fields or the
\* enqueue call raises, and then it is answered 500 with no job; a job is
\* queued only by an accepted submission.
C13_SubmissionOutcomes ==
    [][lastSubmit' # lastSubmit =>
        LET r == lastSubmit' IN
        /\ InvalidSubmission(r) =>
              (submitResp' = 400 /\ pc' = "idle" /\ files' = {})
        /\ (~InvalidSubmission(r) /\ r.json_ok /\ r.enqueue_ok) =>
              (submitResp' = 202 /\ pc' = "queued" /\ taskState' = "PENDING"
                 /\ lastCall' = "none" /\ catalog' = {})
        /\ (~InvalidSubmission(r) /\ ~(r.json_ok /\ r.enqueue_ok)) =>
              (submitResp' = 500 /\ pc' = "refused")
        /\ (pc' = "queued") = (submitResp' = 202)]_vars

C13_Witness ==
    /\ lastSubmit.made
    /\ lastSubmit.sched = "future"
    /\ submitResp = 202
    /\ pc = "queued"
    /\ taskState = "PENDING"

\* the task finished after it had reached the construction of the Video row,
\* and not with an error of the database
ReachedCommit ==
    /\ pc = "done"
    /\ thumbnail_url # "none"
    /\ taskResult # FailureResult("commit failed")

\* C14: a run in which validation, upload and metadata fetch succeeded and
\* the database accepts the commit ends SUCCEEDED with exactly one new catalog
\* record, and the cache invalidation is invoked exactly once, after the
\* commit; a run that ends otherwise does not invoke it.
C14_SuccessfulRunCommits ==
    /\ ReachedCommit =>
          /\ taskState = "SUCCESS"
          /\ taskResult = SuccessResult
          /\ Cardinality(catalog) = 1
          /\ \A v \in catalog : v.duration \in Durations
          /\ cacheCalls = 1
    /\ (Terminal /\ taskResult # SuccessResult) => cacheCalls = 0
    /\ cacheCalls > 0 => catalog # {}

\* the upload is over (returned or raised) and it was begun
UploadOver ==
    /\ pc \in {"details", "done"}
    /\ taskResult # FailureResult("User not found")

\* C15: for every file with 0 <= file_size < chunk_size, when no chunk call
\* failed, the upload made exactly one chunk call and returned with
\* offset = file_size.
C15_SmallFileOneChunk ==
    (UploadOver /\ file_size < chunk_size /\ failCalls = 0 /\ ~partial) =>
        (pc = "details" /\ chunkCalls = 1 /\ offset = file_size /\ url = "tus")

\* C16: for every file whose size is an exact multiple of chunk_size, when no
\* chunk call failed and the server took every chunk in full, the upload made
\* exactly file_size / chunk_size chunk calls.
C16_ExactMultipleChunkCount ==
    (UploadOver /\ file_size % chunk_size = 0 /\ failCalls = 0 /\ ~partial) =>
        chunkCalls = file_size \div chunk_size

C16_Witness ==
    /\ pc = "details"
    /\ file_size = 2 * chunk_size
    /\ chunkCalls = 2
    /\ failCalls = 0
    /\ ~partial
    /\ offset = file_size

C19_FetchFailureFallsBack ==
    (/\ pc = "done"
     /\ \/ taskResult = FailureResult("details request failed")
        \/ playback_url = "fallback"
     /\ taskResult # FailureResult("commit failed")) =>
        /\ taskState = "SUCCESS"
        /\ taskResult = SuccessResult
        /\ \E v \in catalog : v.video = "fallback"

\* C20: when the optional thumbnail upload failed, the job still commits the
\* record, and the record's thumbnail reference is the remote-provided one
\* or the synthesized fallback, never empty.
C20_ThumbnailFailureTolerated ==
    (ReachedCommit /\ thumb_path /\ thumbnail_url # "custom") =>
        /\ taskResult = SuccessResult
        /\ \E v \in catalog : v.thumbnail = thumbnail_url
                               /\ v.thumbnail \in {"remote", "fallback"}

\* position at which this delivery entered step s (0: it has not)
StepIndex(s) ==
    IF \E i \in 1..Len(steps) : steps[i] = s
    THEN CHOOSE i \in 1..Len(steps) : steps[i] = s
    ELSE 0

\* C21: within one job the transcode step has been entered, and is over,
\* before the first remote upload call, and the upload has reached
\* offset = file_size before the commit step is entered.
C21_StepsOrdered ==
    /\ lastCall # "none" =>
          (0 < StepIndex("transcode") /\ StepIndex("transcode") < StepIndex("upload"))
    /\ 0 < StepIndex("commit") =>
          /\ 0 < StepIndex("upload")
          /\ StepIndex("upload") < StepIndex("commit")
          /\ offset = file_size

\* C22: whenever the worker takes a step from a safe point (before a chunk
\* call, before the commit) with the job's cancelled flag already written,
\* that step is the exit with the cancellation outcome: no chunk call is
\* made, no catalog record exists and a poll reports CANCELLED.
C22_FlagObservedAtSafePoint ==
    [][(/\ JobFlag
        /\ pc \in {"upload", "commit"}
        /\ (uploadVars' # uploadVars \/ steps' # steps)) =>
            /\ pc' = "done"
            /\ lastCall' = lastCall
            /\ catalog' = {}
            /\ StatusResponse(taskState', taskResult').state = "CANCELLED"]_vars

\* C23: a failed chunk call leaves the client's offset where it was and keeps
\* the session URL; every chunk call, a resend included, starts at
\* last_offset, and last_offset only ever takes a value the server reported
\* in a successful response.
C23_ResendFromAcknowledged ==
    [][/\ (failCalls' = failCalls + 1 /\ pc' = "upload") =>
            /\ offset' = offset
            /\ offset' = last_offset'
            /\ last_offset' = last_offset
            /\ url # "none" => url' = url
       /\ chunkCalls' = chunkCalls + 1 => offset = last_offset
       /\ last_offset' # last_offset =>
            (failCalls' = failCalls /\ last_offset' = serverOffset')]_vars

C23_Witness ==
    /\ pc = "details"
    /\ failKinds = {"transport"}
    /\ failCalls = 2
    /\ url = "tus"
    /\ offset = file_size
    /\ offset = serverOffset

C25_BackoffWait ==
    [][retry_count' = retry_count + 1 =>
        IF retry_count' > max_retries
        THEN lastWait' = 0 /\ pc' = "done"
        ELSE /\ lastWait' = Min(5 * retry_count', 30)
             /\ lastWait' >= lastWait
             /\ lastWait' <= 30]_vars

C25_Witness ==
    /\ pc = "upload"
    /\ retry_count = 7
    /\ lastWait = 30

\* C26: when the server stored a chunk whose response was lost, and every
\* later call is answered (the budget allowing a retry), the upload still
\* returns with offset = file_size.
C26_LostResponseRecovered ==
    (/\ UploadOver
     /\ "lost" \in failKinds
     /\ failKinds \subseteq {"lost", "conflict"}
     /\ max_retries > 0
     /\ taskResult # FailureResult("offset query failed")) =>
        (pc = "details" /\ offset = file_size /\ serverOffset = file_size)

\* C27: every successful chunk call resets the retry counter, so the counter
\* is the number of consecutive failures, and the upload raises its budget
\* failure only on a run of max_retries + 1 consecutive failures, however
\* many calls failed in all.
C27_ConsecutiveOnly ==
    [][/\ (chunkCalls' = chunkCalls + 1 /\ failCalls' = failCalls) => retry_count' = 0
       /\ retry_count' = failRun'
       /\ taskResult' = FailureResult("Upload failed") =>
            failRun' = max_retries' + 1]_vars

C27_Witness ==
    /\ pc = "details"
    /\ offset = file_size
    /\ max_retries > 0
    /\ failCalls > max_retries
    /\ retry_count = 0

C30_StagedFilesRemovedOnError ==
    (/\ lastSubmit.made
     /\ ~InvalidSubmission(lastSubmit)
     /\ ~(lastSubmit.json_ok /\ lastSubmit.enqueue_ok)) =>
        /\ submitResp = 500
        /\ pc = "refused"
        /\ taskState = "PENDING"
        /\ files = {}

====
